---- MODULE Spec2Model ----
(***************************************************************************)
(* A model of code_analyzer.py: the per-file loop (line pass, parse, tree  *)
(* walk, report) as a state machine, the line rules as operators.          *)
(*                                                                         *)
(* Text is modelled as sequences of one-character strings.  A file on     *)
(* disk is its sequence of raw lines (each with its terminator, as         *)
(* iteration over a text file yields them) together with what ast.parse    *)
(* returns for it.                                                         *)
(***************************************************************************)
EXTENDS Integers, Sequences, FiniteSets, TLC

VARIABLES
    filepaths,             \* the discovered paths, sorted (line 170-180)
    disk,                  \* path -> [lines, parse]: what open()/ast.parse see
    fi,                    \* position of the for-loop of line 182 in filepaths
    pc,                    \* where the loop body of line 182-217 stands
    number,                \* enumerate(file, start=1): lines read so far
    blank_line_counter,    \* line 186
    errors,                \* CodeAnalyser.errors
    current_line_number,   \* CodeAnalyser.current_line_number
    in_function,           \* CodeAnalyser.in_function
    outside_class,         \* CodeAnalyser.outside_class (unset until line 132)
    stack,                 \* the recursion of NodeVisitor.visit: one frame per open call
    stdout                 \* what print() has written, in order

vars == <<filepaths, disk, fi, pc, number, blank_line_counter, errors,
          current_line_number, in_function, outside_class, stack, stdout>>

---------------------------------------------------------------------------
(* Bounds of the explored inputs *)

MaxLines == 5          \* longest file of the blank-run family
MaxSemiLen == 4        \* longest body of the semicolon family
MaxIndent == 5         \* longest leading whitespace of the indentation family
LengthSlack == 2       \* line lengths explored around MAXIMUM_LINE_LENGTH
MaxErrors == 4         \* longest error list handed to report_errors
MaxFiles == 2          \* largest batch

---------------------------------------------------------------------------
(* Python values and character classes *)

\* Python constants, told apart from every text by their one long element
None == <<"None">>
PyTrue == <<"True">>
PyFalse == <<"False">>
MAXIMUM_LINE_LENGTH == 79

Whitespace == {" ", "\t", "\n"}
Lower == {"a","b","c","d","e","f","g","h","i","j","k","l","m",
          "n","o","p","q","r","s","t","u","v","w","x","y","z"}
Upper == {"A","B","C","D","E","F","G","H","I","J","K","L","M",
          "N","O","P","Q","R","S","T","U","V","W","X","Y","Z"}

Rep(c, n) == [i \in 1..n |-> c]

\* line.strip() is truthy
strip_nonempty(line) == \E i \in 1..Len(line) : line[i] \notin Whitespace

\* does word occur in line starting at position i
StartsAt(line, i, word) ==
    /\ i + Len(word) - 1 <= Len(line)
    /\ \A k \in 1..Len(word) : line[i + k - 1] = word[k]

KwDef == <<"d","e","f">>
KwClass == <<"c","l","a","s","s">>

---------------------------------------------------------------------------
(* The line rules, lines 13-67 *)

\* re.match(r'^(\s{4})*\S', line) fails
indentation_not_multiple_of_four(line) ==
    ~ \E k \in 0..(Len(line) \div 4) :
          /\ \A i \in 1..(4 * k) : line[i] \in Whitespace
          /\ 4 * k + 1 <= Len(line)
          /\ line[4 * k + 1] \notin Whitespace

\* The characters at which the loop of unnecessary_semicolon does anything:
\* in a string only the quote that opened it, in code a quote, '#' or ';'.
semicolon_stops(line, i, in_string, quotes) ==
    {j \in i..Len(line) :
        IF in_string THEN line[j] = quotes
        ELSE line[j] \in {"'", "\"", "#", ";"}}

\* A scan that leaves string state on ANY quote character.
RECURSIVE semicolon_scan_anyquote(_, _, _, _)
semicolon_scan_anyquote(line, i, in_string, quotes) ==
    LET stops == {j \in i..Len(line) :
                     IF in_string THEN line[j] \in {"'", "\""}
                     ELSE line[j] \in {"'", "\"", "#", ";"}}
    IN  IF stops = {} THEN PyFalse
        ELSE LET j == CHOOSE k \in stops : \A m \in stops : k <= m
                 character == line[j]
             IN  IF in_string
                 THEN semicolon_scan_anyquote(line, j + 1, FALSE, quotes)
                 ELSE IF character \in {"'", "\""}
                      THEN semicolon_scan_anyquote(line, j + 1, TRUE, character)
                      ELSE IF character = "#" THEN None
                      ELSE PyTrue

\* The for loop of unnecessary_semicolon (lines 23-36) from character i on,
\* taken from one character that changes something to the next; the
\* characters in between leave in_string and quotes as they are.  The result
\* is the Python value returned: True at a ';' in code, False from the
\* loop's else clause when the line is exhausted, and None when '#' breaks
\* out of the loop, which skips the else clause and falls off the function.
RECURSIVE semicolon_scan(_, _, _, _)
semicolon_scan(line, i, in_string, quotes) ==
    LET stops == semicolon_stops(line, i, in_string, quotes)
    IN  IF stops = {} THEN PyFalse
        ELSE LET j == CHOOSE k \in stops : \A m \in stops : k <= m
                 character == line[j]
             IN  IF in_string
                 THEN semicolon_scan(line, j + 1, FALSE, quotes)
                 ELSE IF character \in {"'", "\""}
                      THEN semicolon_scan(line, j + 1, TRUE, character)
                      ELSE IF character = "#" THEN None
                      ELSE PyTrue

unnecessary_semicolon(line) == semicolon_scan(line, 1, FALSE, "")

\* truth value of a Python result in an if statement
Truthy(v) == v \notin {PyFalse, None}

\* re.match(r'[^#]*[^\s#]+\s?#.*', line): the '#' matched is the first one
\* of the line; before it comes a non-whitespace character, with at most one
\* whitespace character in between.
less_than_two_spaces_before_inline_comments(line) ==
    \E p \in 1..Len(line) :
        /\ line[p] = "#"
        /\ \A i \in 1..(p - 1) : line[i] # "#"
        /\ \/ (p >= 2 /\ line[p - 1] \notin Whitespace)
           \/ (p >= 3 /\ line[p - 1] \in Whitespace
                      /\ line[p - 2] \notin Whitespace)

\* re.match(r'.*#.*[Tt][Oo][Dd][Oo].*', line): '.' does not match a newline
todo_found(line) ==
    \E i \in 1..Len(line) : \E j \in (i + 1)..(Len(line) - 3) :
        /\ line[i] = "#"
        /\ line[j] \in {"T", "t"}
        /\ line[j + 1] \in {"O", "o"}
        /\ line[j + 2] \in {"D", "d"}
        /\ line[j + 3] \in {"O", "o"}
        /\ \A k \in 1..(j + 3) : line[k] # "\n"

\* re.search(r'(def|class)\s{2,}', line): group 1 of the leftmost match
KeywordAt(line, i, word) ==
    /\ StartsAt(line, i, word)
    /\ i + Len(word) + 1 <= Len(line)
    /\ line[i + Len(word)] \in Whitespace
    /\ line[i + Len(word) + 1] \in Whitespace

too_many_spaces_after_construction_name(line) ==
    LET hits == {i \in 1..Len(line) :
                    KeywordAt(line, i, KwDef) \/ KeywordAt(line, i, KwClass)}
    IN  IF hits = {} THEN None
        ELSE LET first == CHOOSE i \in hits : \A j \in hits : i <= j
             IN  IF KeywordAt(line, first, KwDef) THEN KwDef ELSE KwClass

\* re.match(r'(?:[A-Z][a-z_]*)+', name) fails: the name does not begin with
\* a capital letter
name_not_camel_case(name) == ~ (Len(name) >= 1 /\ name[1] \in Upper)

\* re.match(r'[a-z_]+', name) fails: the name does not begin with a
\* lowercase letter or an underscore
name_not_snake_case(name) == ~ (Len(name) >= 1 /\ name[1] \in Lower \cup {"_"})

---------------------------------------------------------------------------
(* ErrorMessage and CodeAnalyser.log_error, lines 70-121 *)

\* The message text is a function of key and name (lines 84-108) and is not
\* carried in the record.
ErrorMessage(filepath, line_number, key, name) ==
    [filepath |-> filepath, line_number |-> line_number,
     key |-> key, name |-> name]

log_error(errs, filepath, line_number, key, name) ==
    Append(errs, ErrorMessage(filepath, line_number, key, name))

---------------------------------------------------------------------------
(* The line pass, lines 185-211 *)

\* line 189
too_long(line) == Len(line) > MAXIMUM_LINE_LENGTH

\* A threshold one too high.
too_many_blank_lines_off_by_one(counter) == counter > 3

\* line 199
too_many_blank_lines(counter) == counter > 2

\* the errors one non-blank line adds, in the order of lines 189-207
line_errors(errs, filepath, n, line, counter) ==
    LET e1 == IF too_long(line)
              THEN log_error(errs, filepath, n, 1, None) ELSE errs
        e2 == IF indentation_not_multiple_of_four(line)
              THEN log_error(e1, filepath, n, 2, None) ELSE e1
        e3 == IF Truthy(unnecessary_semicolon(line))
              THEN log_error(e2, filepath, n, 3, None) ELSE e2
        e4 == IF less_than_two_spaces_before_inline_comments(line)
              THEN log_error(e3, filepath, n, 4, None) ELSE e3
        e5 == IF todo_found(line)
              THEN log_error(e4, filepath, n, 5, None) ELSE e4
        e6 == IF too_many_blank_lines(counter)
              THEN log_error(e5, filepath, n, 6, None) ELSE e5
        construction_name == too_many_spaces_after_construction_name(line)
        e7 == IF construction_name # None
              THEN log_error(e6, filepath, n, 7, construction_name) ELSE e6
    IN  e7

CurrentLines == disk[filepaths[fi]].lines

\* line 182-186: the loop takes the next path, builds its CodeAnalyser
\* (lines 112-116) and opens the file
NextFile ==
    /\ pc = "loop"
    /\ fi < Len(filepaths)
    /\ fi' = fi + 1
    /\ current_line_number' = 1
    /\ in_function' = FALSE
    /\ outside_class' = None
    /\ errors' = <<>>
    /\ stack' = <<>>
    /\ blank_line_counter' = 0
    /\ number' = 0
    /\ pc' = "lines"
    /\ UNCHANGED <<filepaths, disk, stdout>>

\* line 182: the loop is exhausted and the script ends
LoopExit ==
    /\ pc = "loop"
    /\ fi = Len(filepaths)
    /\ pc' = "done"
    /\ UNCHANGED <<filepaths, disk, fi, number, blank_line_counter, errors,
                   current_line_number, in_function, outside_class, stack,
                   stdout>>

\* line 187-211: one iteration of the loop over the lines
ReadLine ==
    /\ pc = "lines"
    /\ number < Len(CurrentLines)
    /\ number' = number + 1
    /\ LET line == CurrentLines[number + 1] IN
           IF strip_nonempty(line)
           THEN /\ errors' = line_errors(errors, filepaths[fi], number + 1,
                                         line, blank_line_counter)
                /\ blank_line_counter' = 0
           ELSE /\ blank_line_counter' = blank_line_counter + 1
                /\ errors' = errors
    /\ UNCHANGED <<filepaths, disk, fi, pc, current_line_number, in_function,
                   outside_class, stack, stdout>>

\* line 187: the file is exhausted; line 213 opens it again
EndOfLines ==
    /\ pc = "lines"
    /\ number = Len(CurrentLines)
    /\ pc' = "parse"
    /\ UNCHANGED <<filepaths, disk, fi, number, blank_line_counter, errors,
                   current_line_number, in_function, outside_class, stack,
                   stdout>>

---------------------------------------------------------------------------
(* The syntax tree: what ast.parse returns, as far as the visitor reads it *)

\* A tree is a sequence of nodes, node 1 the Module; children holds the
\* child nodes in the order ast.iter_fields yields them (the order in which
\* NodeVisitor.generic_visit visits them).  body is the body field of a
\* FunctionDef, defaults is node.defaults + node.kw_defaults of an arguments
\* node.  Context and operator nodes (Load, Store, Add, ...) are left out:
\* they have no handler, no children and are neither expr nor stmt.
Node(kind, lineno, name, children, body, defaults) ==
    [kind |-> kind, lineno |-> lineno, name |-> name, children |-> children,
     body |-> body, defaults |-> defaults]

\* the subclasses of ast.stmt and ast.expr
StmtKinds == {"AnnAssign", "Assert", "Assign", "AsyncFor", "AsyncFunctionDef",
              "AsyncWith", "AugAssign", "Break", "ClassDef", "Continue",
              "Delete", "Expr", "For", "FunctionDef", "Global", "If",
              "Import", "ImportFrom", "Match", "Nonlocal", "Pass", "Raise",
              "Return", "Try", "TryStar", "While", "With"}
ExprKinds == {"Attribute", "Await", "BinOp", "BoolOp", "Call", "Compare",
              "Constant", "Dict", "DictComp", "FormattedValue",
              "GeneratorExp", "IfExp", "JoinedStr", "Lambda", "List",
              "ListComp", "Name", "NamedExpr", "Set", "SetComp", "Slice",
              "Starred", "Subscript", "Tuple", "UnaryOp", "Yield",
              "YieldFrom"}

Tree == disk[filepaths[fi]].parse.tree
Top == stack[Len(stack)]
HasNextChild ==
    /\ pc = "visit"
    /\ stack # <<>>
    /\ Top.next <= Len(Tree[Top.node].children)
NextChild == Tree[Top.node].children[Top.next]
Exhausted ==
    /\ pc = "visit"
    /\ stack # <<>>
    /\ Top.next > Len(Tree[Top.node].children)

\* self.visit(child): a new call frame.  in_function_before records the
\* value of in_function when the call began; the code keeps no such copy.
Call(c) ==
    stack' = Append([stack EXCEPT ![Len(stack)].next = @ + 1],
                    [node |-> c, next |-> 1,
                     in_function_before |-> in_function])

\* the call of the top frame returns; the walk is over when the call on the
\* Module returns (line 216)
Return ==
    /\ stack' = SubSeq(stack, 1, Len(stack) - 1)
    /\ pc' = IF Len(stack) = 1 THEN "report" ELSE "visit"

\* A line update that never moves backwards.
generic_visit_line_monotone(node, current) ==
    IF node.kind \in StmtKinds \cup ExprKinds /\ node.lineno > current
    THEN node.lineno ELSE current

\* line 124-125: the new current line on entering node
generic_visit_line(node, current) ==
    IF node.kind \in StmtKinds \cup ExprKinds THEN node.lineno ELSE current

\* line 213-216: the file parses and visit(tree) is called on the Module,
\* which has no handler and is neither expr nor stmt
ParseOk ==
    /\ pc = "parse"
    /\ disk[filepaths[fi]].parse.ok
    /\ pc' = "visit"
    /\ stack' = <<[node |-> 1, next |-> 1, in_function_before |-> in_function]>>
    /\ UNCHANGED <<filepaths, disk, fi, number, blank_line_counter, errors,
                   current_line_number, in_function, outside_class, stdout>>

\* line 214: ast.parse raises SyntaxError; nothing catches it and the
\* script ends with a traceback
ParseFail ==
    /\ pc = "parse"
    /\ ~ disk[filepaths[fi]].parse.ok
    /\ pc' = "crashed"
    /\ UNCHANGED <<filepaths, disk, fi, number, blank_line_counter, errors,
                   current_line_number, in_function, outside_class, stack,
                   stdout>>

\* line 128-131, up to the visit of the children
visit_ClassDef ==
    /\ HasNextChild
    /\ Tree[NextChild].kind = "ClassDef"
    /\ LET node == Tree[NextChild] IN
        /\ errors' = IF name_not_camel_case(node.name)
                     THEN log_error(errors, filepaths[fi], node.lineno, 8,
                                    node.name)
                     ELSE errors
        /\ current_line_number' = generic_visit_line(node, current_line_number)
    /\ Call(NextChild)
    /\ UNCHANGED <<filepaths, disk, fi, pc, number, blank_line_counter,
                   in_function, outside_class, stdout>>

\* line 132, after the children
return_ClassDef ==
    /\ Exhausted
    /\ Tree[Top.node].kind = "ClassDef"
    /\ outside_class' = PyTrue
    /\ Return
    /\ UNCHANGED <<filepaths, disk, fi, number, blank_line_counter, errors,
                   current_line_number, in_function, stdout>>

\* line 134-138, up to the visit of the children
visit_FunctionDef ==
    /\ HasNextChild
    /\ Tree[NextChild].kind = "FunctionDef"
    /\ in_function' = TRUE
    /\ LET node == Tree[NextChild] IN
        /\ errors' = IF name_not_snake_case(node.name)
                     THEN log_error(errors, filepaths[fi], node.lineno, 9,
                                    node.name)
                     ELSE errors
        /\ current_line_number' = generic_visit_line(node, current_line_number)
    /\ Call(NextChild)
    /\ UNCHANGED <<filepaths, disk, fi, pc, number, blank_line_counter,
                   outside_class, stdout>>

\* line 139, after the children
return_FunctionDef ==
    /\ Exhausted
    /\ Tree[Top.node].kind = "FunctionDef"
    /\ in_function' = FALSE
    /\ Return
    /\ UNCHANGED <<filepaths, disk, fi, number, blank_line_counter, errors,
                   current_line_number, outside_class, stdout>>

\* line 141-144
visit_arg ==
    /\ HasNextChild
    /\ Tree[NextChild].kind = "arg"
    /\ LET node == Tree[NextChild] IN
        /\ errors' = IF name_not_snake_case(node.name)
                     THEN log_error(errors, filepaths[fi],
                                    current_line_number, 10, node.name)
                     ELSE errors
        /\ current_line_number' = generic_visit_line(node, current_line_number)
    /\ Call(NextChild)
    /\ UNCHANGED <<filepaths, disk, fi, pc, number, blank_line_counter,
                   in_function, outside_class, stdout>>

\* line 147: the test that decides whether a Name is logged
name_is_logged(node, flag) == name_not_snake_case(node.name) /\ flag

\* line 146-149
visit_Name ==
    /\ HasNextChild
    /\ Tree[NextChild].kind = "Name"
    /\ LET node == Tree[NextChild] IN
        /\ errors' = IF name_is_logged(node, in_function)
                     THEN log_error(errors, filepaths[fi],
                                    current_line_number, 11, node.name)
                     ELSE errors
        /\ current_line_number' = generic_visit_line(node, current_line_number)
    /\ Call(NextChild)
    /\ UNCHANGED <<filepaths, disk, fi, pc, number, blank_line_counter,
                   in_function, outside_class, stdout>>

\* line 151-156: one error for the first mutable default, if any
visit_arguments ==
    /\ HasNextChild
    /\ Tree[NextChild].kind = "arguments"
    /\ LET node == Tree[NextChild] IN
        /\ errors' = IF \E d \in DOMAIN node.defaults :
                           Tree[node.defaults[d]].kind \in {"List", "Dict", "Set"}
                     THEN log_error(errors, filepaths[fi],
                                    current_line_number, 12, None)
                     ELSE errors
        /\ current_line_number' = generic_visit_line(node, current_line_number)
    /\ Call(NextChild)
    /\ UNCHANGED <<filepaths, disk, fi, pc, number, blank_line_counter,
                   in_function, outside_class, stdout>>

HandledKinds == {"ClassDef", "FunctionDef", "arg", "Name", "arguments"}

\* line 123-126, for a node whose class has no visit_ method
generic_visit ==
    /\ HasNextChild
    /\ Tree[NextChild].kind \notin HandledKinds
    /\ current_line_number' =
           generic_visit_line(Tree[NextChild], current_line_number)
    /\ Call(NextChild)
    /\ UNCHANGED <<filepaths, disk, fi, pc, number, blank_line_counter, errors,
                   in_function, outside_class, stdout>>

\* a call returns that does nothing after its children
return_other ==
    /\ Exhausted
    /\ Tree[Top.node].kind \notin {"ClassDef", "FunctionDef"}
    /\ Return
    /\ UNCHANGED <<filepaths, disk, fi, number, blank_line_counter, errors,
                   current_line_number, in_function, outside_class, stdout>>

---------------------------------------------------------------------------
(* CodeAnalyser.report_errors, lines 158-167 *)

\* attrgetter('line_number', 'key') compared as tuples
SortKeyLess(a, b) ==
    \/ a.line_number < b.line_number
    \/ (a.line_number = b.line_number /\ a.key < b.key)

\* An insertion that puts the new error in front of its equals.
sort_insert_unstable(sorted, e) ==
    LET k == Cardinality({i \in DOMAIN sorted : SortKeyLess(sorted[i], e)})
    IN  SubSeq(sorted, 1, k) \o <<e>> \o SubSeq(sorted, k + 1, Len(sorted))

\* list.sort is stable: an error goes behind every error already placed
\* whose sort key is not greater
sort_insert(sorted, e) ==
    LET k == Cardinality({i \in DOMAIN sorted : ~ SortKeyLess(e, sorted[i])})
    IN  SubSeq(sorted, 1, k) \o <<e>> \o SubSeq(sorted, k + 1, Len(sorted))

\* line 159
RECURSIVE sort_errors(_)
sort_errors(errs) ==
    IF errs = <<>> THEN <<>>
    ELSE sort_insert(sort_errors(SubSeq(errs, 1, Len(errs) - 1)),
                     errs[Len(errs)])

\* A loop that applies the name test to every error, whatever its key.
RECURSIVE print_loop_every_key(_, _, _, _)
print_loop_every_key(errs, i, variable_names, printed) ==
    IF i > Len(errs) THEN printed
    ELSE LET error == errs[i] IN
         IF \E k \in DOMAIN variable_names : variable_names[k] = error.name
         THEN print_loop_every_key(errs, i + 1, variable_names, printed)
         ELSE print_loop_every_key(errs, i + 1,
                                   Append(variable_names, error.name),
                                   Append(printed, error))

\* line 161-167: the loop from error i on; the result is what it prints
RECURSIVE print_loop(_, _, _, _)
print_loop(errs, i, variable_names, printed) ==
    IF i > Len(errs) THEN printed
    ELSE LET error == errs[i] IN
         IF error.key = 11
         THEN IF \E k \in DOMAIN variable_names :
                     variable_names[k] = error.name
              THEN print_loop(errs, i + 1, variable_names, printed)
              ELSE print_loop(errs, i + 1,
                              Append(variable_names, error.name),
                              Append(printed, error))
         ELSE print_loop(errs, i + 1, variable_names, Append(printed, error))

\* line 158-167, called at line 217; the for loop of line 182 goes on
report_errors ==
    /\ pc = "report"
    /\ errors' = sort_errors(errors)
    /\ stdout' = stdout \o print_loop(sort_errors(errors), 1, <<>>, <<>>)
    /\ pc' = "loop"
    /\ UNCHANGED <<filepaths, disk, fi, number, blank_line_counter,
                   current_line_number, in_function, outside_class, stack>>

---------------------------------------------------------------------------
(* Input families of the line pass *)

NL == <<"\n">>

RECURSIVE SeqsUpTo(_, _)
SeqsUpTo(S, n) ==
    IF n = 0 THEN {<<>>}
    ELSE LET shorter == SeqsUpTo(S, n - 1)
         IN  shorter \cup {Append(s, x) : s \in shorter, x \in S}

\* blank-run family: files of blank, whitespace-only and code lines
RunLines == {NL, <<" ", "\n">>, <<"x", "\n">>, <<"x", ";", "\n">>}
RunFiles == SeqsUpTo(RunLines, MaxLines) \ {<<>>}

\* line-length family: lengths around the limit, with and without a
\* terminator (the last line of a file may lack one), and whitespace-only
LengthLines ==
    UNION {{Rep("x", n) \o NL, Rep("x", n), Rep(" ", n) \o NL} :
              n \in (MAXIMUM_LINE_LENGTH - LengthSlack)
                        ..(MAXIMUM_LINE_LENGTH + LengthSlack)}

\* indentation family: every leading whitespace of spaces and tabs
IndentLines == {w \o <<"x", "\n">> : w \in SeqsUpTo({" ", "\t"}, MaxIndent)}
               \cup {Rep(" ", 8) \o <<"x", "\n">>, Rep("\t", 8) \o <<"x", "\n">>}

\* semicolon family: every body over the characters the scanner tells apart
SemiAlphabet == {"x", ";", "#", "'", "\"", "\\"}
SemiLines == {b \o NL : b \in SeqsUpTo(SemiAlphabet, MaxSemiLen)}

\* lines for the remaining rules
OtherLines == {
    <<"x"," ","#"," ","t","o","d","o","\n">>,
    <<"x"," "," ","#"," ","T","O","D","O","\n">>,
    <<"#"," ","x","\n">>,
    <<"d","e","f"," "," ","f","(",")",":","\n">>,
    <<"c","l","a","s","s"," "," ","A",":","\n">>,
    <<"c","l","a","s","s"," ","A",":","\n">> }

OneLineFiles == {<<l>> : l \in LengthLines \cup IndentLines \cup SemiLines
                                \cup OtherLines}

LineFiles == RunFiles \cup OneLineFiles

\* the line pass never looks at what the file parses to
ModuleOnly == <<Node("Module", 0, None, <<>>, {}, <<>>)>>

\* the line pass of one file, from the moment its file is opened
InitLines ==
    /\ filepaths = <<1>>
    /\ \E f \in LineFiles :
           disk = <<[lines |-> f, parse |-> [ok |-> TRUE, tree |-> ModuleOnly]]>>
    /\ fi = 1
    /\ pc = "lines"
    /\ number = 0
    /\ blank_line_counter = 0
    /\ errors = <<>>
    /\ current_line_number = 1
    /\ in_function = FALSE
    /\ outside_class = None
    /\ stack = <<>>
    /\ stdout = <<>>

NextLines == ReadLine \/ EndOfLines

SpecLines == InitLines /\ [][NextLines]_vars

---------------------------------------------------------------------------
(* Whole files: their lines and the tree ast.parse builds from them *)

\* FileSemicolon:
\*   1  x = 1;
FileSemicolon ==
    [lines |-> <<<<"x"," ","="," ","1",";","\n">>>>,
     parse |-> [ok |-> TRUE, tree |-> <<
        Node("Module", 0, None, <<2>>, {}, <<>>),
        Node("Assign", 1, None, <<3,4>>, {}, <<>>),
        Node("Name", 1, <<"x">>, <<>>, {}, <<>>),
        Node("Constant", 1, None, <<>>, {}, <<>>)>>]]

\* FileSyntaxError:
\*   1  def (:
FileSyntaxError ==
    [lines |-> <<<<"d","e","f"," ","(",":","\n">>>>,
     parse |-> [ok |-> FALSE, tree |-> <<>>]]

\* FileNested:
\*   1  def outer():
\*   2      def inner():
\*   3          pass
\*   4      BadName = 1
FileNested ==
    [lines |-> <<<<"d","e","f"," ","o","u","t","e","r","(",")",":","\n">>,
                 <<" "," "," "," ","d","e","f"," ","i","n","n","e","r","(",")",":","\n">>,
                 <<" "," "," "," "," "," "," "," ","p","a","s","s","\n">>,
                 <<" "," "," "," ","B","a","d","N","a","m","e"," ","="," ","1","\n">>>>,
     parse |-> [ok |-> TRUE, tree |-> <<
        Node("Module", 0, None, <<2>>, {}, <<>>),
        Node("FunctionDef", 1, <<"o","u","t","e","r">>, <<3,4,7>>, {4,7}, <<>>),
        Node("arguments", 0, None, <<>>, {}, <<>>),
        Node("FunctionDef", 2, <<"i","n","n","e","r">>, <<5,6>>, {6}, <<>>),
        Node("arguments", 0, None, <<>>, {}, <<>>),
        Node("Pass", 3, None, <<>>, {}, <<>>),
        Node("Assign", 4, None, <<8,9>>, {}, <<>>),
        Node("Name", 4, <<"B","a","d","N","a","m","e">>, <<>>, {}, <<>>),
        Node("Constant", 4, None, <<>>, {}, <<>>)>>]]

\* FileDecorated:
\*   1  @Deco
\*   2  def f(A, b=[]):
\*   3      return A
FileDecorated ==
    [lines |-> <<<<"@","D","e","c","o","\n">>,
                 <<"d","e","f"," ","f","(","A",","," ","b","=","[","]",")",":","\n">>,
                 <<" "," "," "," ","r","e","t","u","r","n"," ","A","\n">>>>,
     parse |-> [ok |-> TRUE, tree |-> <<
        Node("Module", 0, None, <<2>>, {}, <<>>),
        Node("FunctionDef", 2, <<"f">>, <<3,7,9>>, {7}, <<>>),
        Node("arguments", 0, None, <<4,5,6>>, {}, <<6>>),
        Node("arg", 2, <<"A">>, <<>>, {}, <<>>),
        Node("arg", 2, <<"b">>, <<>>, {}, <<>>),
        Node("List", 2, None, <<>>, {}, <<>>),
        Node("Return", 3, None, <<8>>, {}, <<>>),
        Node("Name", 3, <<"A">>, <<>>, {}, <<>>),
        Node("Name", 1, <<"D","e","c","o">>, <<>>, {}, <<>>)>>]]

\* FileClass:
\*   1  class myclass:
\*   2      Attr = 1
\*   3  Glob = Attr
FileClass ==
    [lines |-> <<<<"c","l","a","s","s"," ","m","y","c","l","a","s","s",":","\n">>,
                 <<" "," "," "," ","A","t","t","r"," ","="," ","1","\n">>,
                 <<"G","l","o","b"," ","="," ","A","t","t","r","\n">>>>,
     parse |-> [ok |-> TRUE, tree |-> <<
        Node("Module", 0, None, <<2,6>>, {}, <<>>),
        Node("ClassDef", 1, <<"m","y","c","l","a","s","s">>, <<3>>, {}, <<>>),
        Node("Assign", 2, None, <<4,5>>, {}, <<>>),
        Node("Name", 2, <<"A","t","t","r">>, <<>>, {}, <<>>),
        Node("Constant", 2, None, <<>>, {}, <<>>),
        Node("Assign", 3, None, <<7,8>>, {}, <<>>),
        Node("Name", 3, <<"G","l","o","b">>, <<>>, {}, <<>>),
        Node("Name", 3, <<"A","t","t","r">>, <<>>, {}, <<>>)>>]]

\* FileRepeated:
\*   1  def F(A, B):
\*   2      C = B
\*   3      D = C
FileRepeated ==
    [lines |-> <<<<"d","e","f"," ","F","(","A",","," ","B",")",":","\n">>,
                 <<" "," "," "," ","C"," ","="," ","B","\n">>,
                 <<" "," "," "," ","D"," ","="," ","C","\n">>>>,
     parse |-> [ok |-> TRUE, tree |-> <<
        Node("Module", 0, None, <<2>>, {}, <<>>),
        Node("FunctionDef", 1, <<"F">>, <<3,6,9>>, {6,9}, <<>>),
        Node("arguments", 0, None, <<4,5>>, {}, <<>>),
        Node("arg", 1, <<"A">>, <<>>, {}, <<>>),
        Node("arg", 1, <<"B">>, <<>>, {}, <<>>),
        Node("Assign", 2, None, <<7,8>>, {}, <<>>),
        Node("Name", 2, <<"C">>, <<>>, {}, <<>>),
        Node("Name", 2, <<"B">>, <<>>, {}, <<>>),
        Node("Assign", 3, None, <<10,11>>, {}, <<>>),
        Node("Name", 3, <<"D">>, <<>>, {}, <<>>),
        Node("Name", 3, <<"C">>, <<>>, {}, <<>>)>>]]

SampleFiles == {FileSemicolon, FileSyntaxError, FileNested, FileDecorated,
                FileClass, FileRepeated}

\* the script after file discovery (line 170-180), about to enter the loop
\* of line 182 over a batch of files
Init ==
    /\ \E n \in 1..MaxFiles :
           /\ filepaths = [i \in 1..n |-> i]
           /\ disk \in [1..n -> SampleFiles]
    /\ fi = 0
    /\ pc = "loop"
    /\ number = 0
    /\ blank_line_counter = 0
    /\ errors = <<>>
    /\ current_line_number = 1
    /\ in_function = FALSE
    /\ outside_class = None
    /\ stack = <<>>
    /\ stdout = <<>>

Next ==
    \/ NextFile
    \/ LoopExit
    \/ ReadLine
    \/ EndOfLines
    \/ ParseOk
    \/ ParseFail
    \/ visit_ClassDef
    \/ return_ClassDef
    \/ visit_FunctionDef
    \/ return_FunctionDef
    \/ visit_arg
    \/ visit_Name
    \/ visit_arguments
    \/ generic_visit
    \/ return_other
    \/ report_errors

Spec == Init /\ [][Next]_vars

---------------------------------------------------------------------------
(* report_errors on the error lists the two passes can hand it *)

\* report_errors reads nothing but errors.  The lists explored hold errors
\* of one line-pass key (1) and of two tree-pass keys (10, 11), on two
\* lines and with two names.
ReportNames == {<<"A">>, <<"B">>}
ReportLines == {1, 2}

ReportErrors ==
    {ErrorMessage(1, l, 1, None) : l \in ReportLines}
    \cup {ErrorMessage(1, l, k, nm) :
              l \in ReportLines, k \in {10, 11}, nm \in ReportNames}

\* the line pass logs first, in ascending line number and, within a line,
\* ascending key; the tree pass logs after it, in traversal order
LoggableOrder(s) ==
    \A i \in DOMAIN s : \A j \in DOMAIN s :
        i < j =>
            /\ s[i].key > 7 => s[j].key > 7
            /\ (s[i].key <= 7 /\ s[j].key <= 7) => SortKeyLess(s[i], s[j])

ReportInputs == {s \in SeqsUpTo(ReportErrors, MaxErrors) : LoggableOrder(s)}

\* one file whose two passes are over (line 217)
InitReport ==
    /\ filepaths = <<1>>
    /\ disk = <<[lines |-> <<>>, parse |-> [ok |-> TRUE, tree |-> ModuleOnly]]>>
    /\ fi = 1
    /\ pc = "report"
    /\ number = 0
    /\ blank_line_counter = 0
    /\ errors \in ReportInputs
    /\ current_line_number = 1
    /\ in_function = FALSE
    /\ outside_class = None
    /\ stack = <<>>
    /\ stdout = <<>>

NextReport == report_errors

SpecReport == InitReport /\ [][NextReport]_vars


---------------------------------------------------------------------------
(* Properties of the line pass (SpecLines) *)

\* how many logged errors carry this key and line number
Errs(key, n) ==
    Cardinality({i \in DOMAIN errors :
                    errors[i].key = key /\ errors[i].line_number = n})

BlankLine(line) == \A i \in 1..Len(line) : line[i] \in Whitespace

\* length of the run of blank lines that ends right before line n
BlankRunBefore(lines, n) ==
    CHOOSE k \in 0..(n - 1) :
        /\ \A j \in (n - k)..(n - 1) : BlankLine(lines[j])
        /\ (k < n - 1 => ~ BlankLine(lines[n - k - 1]))

\* C1 as stated: after exactly 3 blank lines the next non-blank line gets no
\* S006; after 4 blank lines it gets exactly one S006.
C1_AsStated ==
    \A n \in 1..number :
        ~ BlankLine(CurrentLines[n]) =>
            /\ BlankRunBefore(CurrentLines, n) = 3 => Errs(6, n) = 0
            /\ BlankRunBefore(CurrentLines, n) = 4 => Errs(6, n) = 1

\* C1 amended: a non-blank line gets exactly one S006, carrying its own line
\* number, when more than two blank lines (3, 4, ...) run up to it, and none
\* when at most two do; a blank line never gets one.
C1_BlankRun ==
    \A n \in 1..number :
        Errs(6, n) = IF /\ ~ BlankLine(CurrentLines[n])
                        /\ BlankRunBefore(CurrentLines, n) > 2
                     THEN 1 ELSE 0

\* three blank lines, then a code line that was flagged
C1_Witness ==
    \E n \in 1..number :
        /\ ~ BlankLine(CurrentLines[n])
        /\ BlankRunBefore(CurrentLines, n) = 3
        /\ Errs(6, n) = 1

\* number of characters of a line other than its terminator
PrintableLen(line) ==
    Cardinality({i \in 1..Len(line) : line[i] # "\n"})

\* C5 as stated: a non-blank line gets S001 exactly when it has more than 79
\* printable characters, its terminator not counted.
C5_AsStated ==
    \A n \in 1..number :
        ~ BlankLine(CurrentLines[n]) =>
            (Errs(1, n) >= 1 <=>
                PrintableLen(CurrentLines[n]) > MAXIMUM_LINE_LENGTH)

\* state of the two-state automaton (Code, or the quote that opened the
\* string) after the first n characters of the line
RECURSIVE ModeAfter(_, _)
ModeAfter(line, n) ==
    IF n = 0 THEN "Code"
    ELSE LET before == ModeAfter(line, n - 1) IN
         IF before = "Code"
         THEN IF line[n] \in {"'", "\""} THEN line[n] ELSE "Code"
         ELSE IF line[n] = before THEN "Code" ELSE before

\* the positions where the automaton reads ';' or '#' in Code state
CodeStops(line) ==
    {i \in 1..Len(line) :
        line[i] \in {";", "#"} /\ ModeAfter(line, i - 1) = "Code"}

\* C6: unnecessary_semicolon returns true when the first ';' or '#' read in
\* Code state is a ';', and a false value when it is a '#' (the value is
\* None there) or when the line ends without either (False); S003 is logged
\* for a non-blank line exactly in the first case.
C6_Semicolon ==
    \A n \in 1..number :
        LET line == CurrentLines[n]
            r == unnecessary_semicolon(line)
            stops == CodeStops(line)
        IN  /\ Len(line) <= MaxSemiLen + 2 =>
                IF stops = {} THEN r = PyFalse
                ELSE LET first == CHOOSE i \in stops : \A j \in stops : i <= j
                     IN  IF line[first] = ";" THEN r = PyTrue
                         ELSE ~ Truthy(r)
            /\ Errs(3, n) = IF r = PyTrue /\ ~ BlankLine(line) THEN 1 ELSE 0

\* the line "\"; was read: the escaped quote closed the string and the ';'
\* after it fired
C6_Witness ==
    /\ number = 1
    /\ CurrentLines[1] = <<"\"", "\\", "\"", ";", "\n">>
    /\ Errs(3, 1) = 1

\* the text before the first non-whitespace character of a non-blank line
LeadingWhitespace(line) ==
    LET first == CHOOSE i \in 1..Len(line) :
                     /\ line[i] \notin Whitespace
                     /\ \A j \in 1..(i - 1) : line[j] \in Whitespace
    IN  SubSeq(line, 1, first - 1)

\* C7 as stated: a non-blank line gets no S002 exactly when its leading
\* whitespace is a multiple of four literal spaces; tabs never qualify.
C7_AsStated ==
    \A n \in 1..number :
        ~ BlankLine(CurrentLines[n]) =>
            LET w == LeadingWhitespace(CurrentLines[n]) IN
            (Errs(2, n) = 0 <=>
                /\ \A i \in 1..Len(w) : w[i] = " "
                /\ Len(w) % 4 = 0)

---------------------------------------------------------------------------
(* Properties of the batch loop (Spec) *)

Finished == pc \in {"done", "crashed"}

\* C2 as stated: when the script has ended, every file that comes after a
\* file that failed to parse has been taken up by the loop, and the S003 of
\* each of its stray semicolons has been printed.
C2_AsStated ==
    Finished =>
        \A i \in DOMAIN filepaths :
            (\E j \in 1..(i - 1) : ~ disk[filepaths[j]].parse.ok) =>
                /\ fi >= i
                /\ \A n \in DOMAIN disk[filepaths[i]].lines :
                       (/\ disk[filepaths[i]].parse.ok
                        /\ unnecessary_semicolon(disk[filepaths[i]].lines[n])
                               = PyTrue)
                       => \E k \in DOMAIN stdout :
                              /\ stdout[k].filepath = filepaths[i]
                              /\ stdout[k].line_number = n
                              /\ stdout[k].key = 3

---------------------------------------------------------------------------
(* Properties of the tree walk (Spec) *)

\* a call of visit on child c begins in this step
Enters(c) ==
    /\ HasNextChild
    /\ c = NextChild
    /\ Len(stack') = Len(stack) + 1

\* the call of the top frame returns in this step
Returns ==
    /\ Exhausted
    /\ Len(stack') = Len(stack) - 1

\* C8 as stated: while a FunctionDef's call is open (its children are being
\* visited) in_function is true, and when the call returns in_function is
\* what it was when the call began.
C8_AsStated ==
    [][/\ (pc' = "visit" =>
              \A i \in DOMAIN stack' :
                  Tree[stack'[i].node].kind = "FunctionDef" => in_function')
       /\ (Returns /\ Tree[Top.node].kind = "FunctionDef" =>
              in_function' = Top.in_function_before)]_vars

\* node c, about to be entered below the open calls, lies in the body of a
\* function definition
InsideFunctionBody(c) ==
    LET path == [i \in 1..(Len(stack) + 1) |->
                    IF i <= Len(stack) THEN stack[i].node ELSE c]
    IN  \E i \in 1..Len(stack) :
            /\ Tree[path[i]].kind = "FunctionDef"
            /\ path[i + 1] \in Tree[path[i]].body

\* C9 as stated: entering a Name appends a code-11 error, at the current
\* line and with the Name's identifier, exactly when the identifier is not
\* snake_case and the Name lies in a function body; otherwise it appends
\* nothing.
C9_AsStated ==
    [][pc = "visit" =>
          \A c \in DOMAIN Tree :
              (Enters(c) /\ Tree[c].kind = "Name") =>
                  IF /\ name_not_snake_case(Tree[c].name)
                     /\ InsideFunctionBody(c)
                  THEN errors' = Append(errors,
                                        ErrorMessage(filepaths[fi],
                                                     current_line_number, 11,
                                                     Tree[c].name))
                  ELSE errors' = errors]_vars

\* C10 as stated: during the walk the current line never decreases.
C10_AsStated ==
    [][(pc = "visit" /\ pc' = "visit") =>
           current_line_number' >= current_line_number]_vars

\* C10 amended: entering a statement or expression node sets the current
\* line to that node's own line number, which is at least 1 and may be
\* smaller than the line before; entering any other node, and returning
\* from a node, leaves the current line as it is.
C10_LineOfEnteredNode ==
    [][pc = "visit" =>
          /\ \A c \in DOMAIN Tree :
                 Enters(c) =>
                     current_line_number' =
                         IF Tree[c].kind \in StmtKinds \cup ExprKinds
                         THEN Tree[c].lineno ELSE current_line_number
          /\ Returns => current_line_number' = current_line_number
          /\ current_line_number' >= 1]_vars

\* the walk has entered a node that lies on an earlier line than a
\* statement it is still inside of: the current line has gone back
C10_Witness ==
    /\ pc = "visit"
    /\ stack # <<>>
    /\ Tree[Top.node].kind \in ExprKinds
    /\ current_line_number = Tree[Top.node].lineno
    /\ \E i \in DOMAIN stack :
           /\ Tree[stack[i].node].kind \in StmtKinds
           /\ Tree[stack[i].node].lineno > current_line_number

---------------------------------------------------------------------------
(* Properties of report_errors (SpecReport) *)

\* what the step prints
Printed == SubSeq(stdout', Len(stdout) + 1, Len(stdout'))

Occurrences(s, e) == Cardinality({i \in DOMAIN s : s[i] = e})

Range(s) == {s[i] : i \in DOMAIN s}

\* the entries of s with this line number and key, in their order in s
Restrict(s, l, k) ==
    LET Keep(e) == e.line_number = l /\ e.key = k
    IN  SelectSeq(s, Keep)

FirstIndex(s, e) == CHOOSE i \in DOMAIN s : s[i] = e /\ \A j \in 1..(i - 1) : s[j] # e

\* C3: of the code-11 errors logged with one name exactly one is printed,
\* the one with the least line number (the first in sorted order); an error
\* with any other code is printed as often as it was logged.
C3_Dedup ==
    [][pc = "report" =>
          /\ \A e \in Range(errors) :
                 e.key = 11 =>
                     LET same == {i \in DOMAIN errors :
                                     errors[i].key = 11
                                         /\ errors[i].name = e.name}
                         shown == {j \in DOMAIN Printed :
                                      Printed[j].key = 11
                                          /\ Printed[j].name = e.name}
                     IN  /\ Cardinality(shown) = 1
                         /\ \A j \in shown : \A i \in same :
                                Printed[j].line_number
                                    <= errors[i].line_number
          /\ \A e \in Range(errors) \cup Range(Printed) :
                 /\ e \in Range(errors)
                 /\ e.key # 11 =>
                        Occurrences(Printed, e) = Occurrences(errors, e)]_vars

\* a name logged with code 11 on two lines was printed once, and an error of
\* another code logged twice was printed twice
C3_Witness ==
    /\ pc = "loop"
    /\ \E i \in DOMAIN errors : \E j \in DOMAIN errors :
           /\ errors[i].key = 11 /\ errors[j].key = 11
           /\ errors[i].name = errors[j].name
           /\ errors[i].line_number < errors[j].line_number
           /\ Occurrences(stdout, errors[i]) = 1
           /\ Occurrences(stdout, errors[j]) = 0
    /\ \E i \in DOMAIN errors :
           /\ errors[i].key # 11
           /\ Occurrences(errors, errors[i]) = 2
           /\ Occurrences(stdout, errors[i]) = 2

\* C4: what is printed is in ascending (line_number, key) order, and errors
\* with equal line number and key are printed in the order they were logged.
C4_Order ==
    [][pc = "report" =>
          /\ \A i \in DOMAIN Printed : \A j \in DOMAIN Printed :
                 i < j =>
                     \/ Printed[i].line_number < Printed[j].line_number
                     \/ /\ Printed[i].line_number = Printed[j].line_number
                        /\ Printed[i].key <= Printed[j].key
          /\ \A e \in Range(errors) :
                 IF e.key # 11
                 THEN Restrict(Printed, e.line_number, e.key)
                          = Restrict(errors, e.line_number, e.key)
                 ELSE LET shown == Restrict(Printed, e.line_number, 11)
                      IN  \A i \in DOMAIN shown : \A j \in DOMAIN shown :
                              i < j => FirstIndex(errors, shown[i])
                                           < FirstIndex(errors, shown[j])]_vars

\* two errors of one line and key but different names were printed, and a
\* tree-pass error was printed ahead of a line-pass error logged before it
C4_Witness ==
    /\ pc = "loop"
    /\ \E i \in DOMAIN stdout : \E j \in DOMAIN stdout :
           /\ i < j
           /\ stdout[i].line_number = stdout[j].line_number
           /\ stdout[i].key = stdout[j].key
           /\ stdout[i].name # stdout[j].name
    /\ \E i \in DOMAIN stdout :
           /\ stdout[i].key > 7
           /\ i < Len(stdout)
           /\ stdout[i + 1].key <= 7

====
